---- MODULE Spec2Model ----
(***************************************************************************)
(* Model of mcache (cache.go): a mutex-protected map from key to           *)
(* (value, expiryTime) with a fixed ttl, lazy eviction on reads and a      *)
(* background cleanup goroutine driven by a ticker of period ttl.          *)
(*                                                                         *)
(* Time is a discrete clock `now`.  A caller operation is two steps: it    *)
(* acquires c.mu (Lock) and then runs its body, reads time.Now() inside    *)
(* the body, and unlocks on return.  The cleanup goroutine samples         *)
(* time.Now() BEFORE it acquires c.mu, so it is three steps.               *)
(***************************************************************************)
EXTENDS Integers, FiniteSets, Sequences, TLC

\* ---------------------------------------------------------------- bounds
NumKeys == 2
MaxVal == 1
NumThreads == 2
MaxTime == 5
ttl == 2
NumFewKeys == 1

Keys == 1..NumKeys
FewKeys == 1..NumFewKeys
Values == 0..MaxVal
Threads == 1..NumThreads
zero == 0

VARIABLES
    now,        \* the wall clock read by time.Now()
    items,      \* c.items : map[K]item[V]
    mu,         \* c.mu    : TRUE while the mutex is held
    done,       \* c.done  : "open" or "closed"
    panicked,   \* a close of the closed channel has panicked
    pc,         \* per caller thread: "idle", or "locked" while it holds c.mu
    cpc,        \* position of the cleanup goroutine
    cNow,       \* the `now` sampled by the cleanup goroutine (cache.go:125)
    tickC,      \* ticker.C (capacity 1) holds a tick
    nextTick,   \* the time at which the ticker fires next
    ret,        \* history: the store operation completed by the last step (its
                \*          arguments, result, clock reading and the store it met),
                \*          NoRet after any other step
    lastSet,    \* history: per key, the most recent Set and whether a
                \*          Delete/Release followed it
    relCount,   \* history: per key, successful Releases since the last Set
    snap        \* the map a caller kept from GetAll: whether it holds one,
                \* whether that map is the store's own map object, and its
                \* contents as the caller left them

vars == <<now, items, mu, done, panicked, pc, cpc, cNow, tickC, nextTick,
          ret, lastSet, relCount, snap>>

\* ------------------------------------------------------------ map helpers
EmptyMap == [j \in {} |-> 0]

item(value, expiryTime) == [value |-> value, expiryTime |-> expiryTime]

Put(m, k, it) == [j \in (DOMAIN m) \cup {k} |-> IF j = k THEN it ELSE m[j]]

delete(m, k) == [j \in (DOMAIN m) \ {k} |-> m[j]]

Restrict(m, S) == [j \in S |-> m[j]]

\* time.Time comparisons
After(t, u) == t > u

Before(t, u) == t < u

\* --------------------------------------------- the operations as functions
\* Set: c.items[key] = item{value, time.Now().Add(c.ttl)}
SetItemsKeepFirst(m, k, v, t) ==
    IF k \in DOMAIN m THEN m ELSE Put(m, k, item(v, t + ttl))

SetItems(m, k, v, t) == Put(m, k, item(v, t + ttl))

\* Get / Release: the test `!ok || time.Now().After(it.expiryTime)` negated
GetFoundNoExpiry(m, k, t) == k \in DOMAIN m

GetFound(m, k, t) == k \in DOMAIN m /\ ~After(t, m[k].expiryTime)

GetValueAnyKey(m, k, t) ==
    IF GetFound(m, k, t) THEN m[CHOOSE j \in DOMAIN m : TRUE].value ELSE zero

GetValue(m, k, t) == IF GetFound(m, k, t) THEN m[k].value ELSE zero

GetItemsTouch(m, k, t) ==
    IF GetFound(m, k, t) THEN Put(m, k, item(m[k].value, t + ttl))
    ELSE delete(m, k)

GetItems(m, k, t) == IF GetFound(m, k, t) THEN m ELSE delete(m, k)

ReleaseItemsKeep(m, k, t) == IF GetFound(m, k, t) THEN m ELSE delete(m, k)

ReleaseItems(m, k, t) == delete(m, k)

\* Delete: delete(c.items, key)
DeleteItemsClear(m, k) == IF k \in DOMAIN m THEN EmptyMap ELSE m

DeleteItems(m, k) == delete(m, k)

\* Count / GetAll: an entry is kept iff now.Before(it.expiryTime)
LiveKeys(m, t) == {k \in DOMAIN m : Before(t, m[k].expiryTime)}

CountResultAll(m, t) == Cardinality(DOMAIN m)

CountResult(m, t) == Cardinality(LiveKeys(m, t))

CountItemsKeepAll(m, t) == m

CountItems(m, t) == Restrict(m, LiveKeys(m, t))

GetAllResultNotAfter(m, t) ==
    [k \in {j \in DOMAIN m : ~After(t, m[j].expiryTime)} |-> m[k].value]

GetAllResult(m, t) == [k \in LiveKeys(m, t) |-> m[k].value]

GetAllItems(m, t) == Restrict(m, LiveKeys(m, t))

\* GetAll: result := make(map[K]V, len(c.items)) - the returned map is a new
\* object, not c.items
GetAllSharesStore(m) == TRUE

GetAllShares(m) == FALSE

\* cleanup: an entry is removed iff now.After(it.expiryTime)
SweepItemsNone(m, t) == m

SweepItemsAddTtl(m, t) ==
    Restrict(m, {k \in DOMAIN m : ~After(t + ttl, m[k].expiryTime)})

SweepItems(m, t) == Restrict(m, {k \in DOMAIN m : ~After(t, m[k].expiryTime)})

\* ------------------------------------------------------------------ state
NoSet == [set |-> FALSE, value |-> 0, at |-> 0, intact |-> FALSE]

Ret(op, k, v, found, val, count, all) ==
    [op |-> op, key |-> k, value |-> v, found |-> found, val |-> val,
     count |-> count, all |-> all, now |-> now, pre |-> items]

NoRet ==
    [op |-> "none", key |-> 0, value |-> 0, found |-> FALSE, val |-> zero,
     count |-> 0, all |-> EmptyMap, now |-> 0, pre |-> EmptyMap]

NoSnap == [held |-> FALSE, shared |-> FALSE, m |-> EmptyMap]

\* NewCache: an empty map, an open done channel, the goroutine spawned
Init ==
    /\ now = 0
    /\ items = EmptyMap
    /\ mu = FALSE
    /\ done = "open"
    /\ panicked = FALSE
    /\ pc = [t \in Threads |-> "idle"]
    /\ cpc = "start"
    /\ cNow = 0
    /\ tickC = FALSE
    /\ nextTick = 0
    /\ ret = NoRet
    /\ lastSet = [k \in Keys |-> NoSet]
    /\ relCount = [k \in Keys |-> 0]
    /\ snap = NoSnap

\* ---------------------------------------------------------------- callers
\* c.mu.Lock() at the head of Set/Get/Delete/Release/Count/GetAll
MutexFreeAlways == TRUE

MutexFree == ~mu

Lock(t) ==
    /\ pc[t] = "idle"
    /\ MutexFree
    /\ mu' = TRUE
    /\ pc' = [pc EXCEPT ![t] = "locked"]
    /\ ret' = NoRet
    /\ UNCHANGED <<now, items, done, panicked, cpc, cNow, tickC, nextTick,
                   lastSet, relCount, snap>>

\* the deferred c.mu.Unlock() and the return
Return(t) ==
    /\ mu' = FALSE
    /\ pc' = [pc EXCEPT ![t] = "idle"]
    /\ UNCHANGED <<now, done, panicked, cpc, cNow, tickC, nextTick>>

Set(t, key, value) ==
    /\ pc[t] = "locked"
    /\ items' = SetItems(items, key, value, now)
    /\ ret' = Ret("Set", key, value, FALSE, zero, 0, EmptyMap)
    /\ lastSet' = [lastSet EXCEPT ![key] =
                     [set |-> TRUE, value |-> value, at |-> now,
                      intact |-> TRUE]]
    /\ relCount' = [relCount EXCEPT ![key] = 0]
    /\ UNCHANGED snap
    /\ Return(t)

Get(t, key) ==
    /\ pc[t] = "locked"
    /\ items' = GetItems(items, key, now)
    /\ ret' = Ret("Get", key, 0, GetFound(items, key, now),
                  GetValue(items, key, now), 0, EmptyMap)
    /\ UNCHANGED <<lastSet, relCount, snap>>
    /\ Return(t)

Count(t) ==
    /\ pc[t] = "locked"
    /\ items' = CountItems(items, now)
    /\ ret' = Ret("Count", 0, 0, FALSE, zero, CountResult(items, now), EmptyMap)
    /\ UNCHANGED <<lastSet, relCount, snap>>
    /\ Return(t)

GetAll(t) ==
    /\ pc[t] = "locked"
    /\ items' = GetAllItems(items, now)
    /\ ret' = Ret("GetAll", 0, 0, FALSE, zero, 0, GetAllResult(items, now))
    /\ UNCHANGED <<lastSet, relCount, snap>>
    /\ Return(t)

\* GetAll by a caller that keeps the returned map
GetAllKeep(t) ==
    /\ pc[t] = "locked"
    /\ items' = GetAllItems(items, now)
    /\ ret' = Ret("GetAll", 0, 0, FALSE, zero, 0, GetAllResult(items, now))
    /\ snap' = [held |-> TRUE, shared |-> GetAllShares(items),
                m |-> GetAllResult(items, now)]
    /\ UNCHANGED <<lastSet, relCount>>
    /\ Return(t)

\* what the caller reads in the map it kept
SnapView ==
    IF snap.shared THEN [k \in DOMAIN items |-> items[k].value] ELSE snap.m

\* the caller writes m[key] = value into the map it kept; the write lands in
\* c.items only if the two are one object
SnapPut(key, value) ==
    /\ snap.held
    /\ snap' = [snap EXCEPT !.m = Put(snap.m, key, value)]
    /\ items' = IF snap.shared
                THEN Put(items, key, item(value, now))
                ELSE items
    /\ ret' = Ret("SnapPut", key, value, FALSE, zero, 0, EmptyMap)
    /\ UNCHANGED <<now, mu, done, panicked, pc, cpc, cNow, tickC, nextTick,
                   lastSet, relCount>>

\* the caller runs delete(m, key) on the map it kept
SnapDelete(key) ==
    /\ snap.held
    /\ snap' = [snap EXCEPT !.m = delete(snap.m, key)]
    /\ items' = IF snap.shared THEN delete(items, key) ELSE items
    /\ ret' = Ret("SnapDelete", key, 0, FALSE, zero, 0, EmptyMap)
    /\ UNCHANGED <<now, mu, done, panicked, pc, cpc, cNow, tickC, nextTick,
                   lastSet, relCount>>

Delete(t, key) ==
    /\ pc[t] = "locked"
    /\ items' = DeleteItems(items, key)
    /\ ret' = Ret("Delete", key, 0, FALSE, zero, 0, EmptyMap)
    /\ lastSet' = [lastSet EXCEPT ![key].intact = FALSE]
    /\ UNCHANGED <<relCount, snap>>
    /\ Return(t)

Release(t, key) ==
    /\ pc[t] = "locked"
    /\ items' = ReleaseItems(items, key, now)
    /\ ret' = Ret("Release", key, 0, GetFound(items, key, now),
                  GetValue(items, key, now), 0, EmptyMap)
    /\ lastSet' = [lastSet EXCEPT ![key].intact = FALSE]
    /\ relCount' = [relCount EXCEPT ![key] =
                      IF GetFound(items, key, now) THEN @ + 1 ELSE @]
    /\ UNCHANGED snap
    /\ Return(t)

\* Close: close(c.done); closing a closed channel panics.  ret.found records
\* whether this call panicked.
CloseIdempotent ==
    /\ done' = "closed"
    /\ panicked' = panicked
    /\ ret' = Ret("Close", 0, 0, FALSE, zero, 0, EmptyMap)
    /\ UNCHANGED <<now, items, mu, pc, cpc, cNow, tickC, nextTick, lastSet,
                   relCount, snap>>

Close ==
    /\ IF done = "closed"
       THEN panicked' = TRUE /\ done' = done
       ELSE done' = "closed" /\ panicked' = panicked
    /\ ret' = Ret("Close", 0, 0, done = "closed", zero, 0, EmptyMap)
    /\ UNCHANGED <<now, items, mu, pc, cpc, cNow, tickC, nextTick, lastSet,
                   relCount, snap>>

\* ------------------------------------------------------- cleanup goroutine
\* time.NewTicker(c.ttl) when the goroutine starts running
CleanupStart ==
    /\ cpc = "start"
    /\ cpc' = "select"
    /\ nextTick' = now + ttl
    /\ ret' = NoRet
    /\ UNCHANGED <<now, items, mu, done, panicked, pc, cNow, tickC, lastSet,
                   relCount, snap>>

\* case <-ticker.C: now := time.Now()
CleanupTick ==
    /\ cpc = "select"
    /\ tickC
    /\ tickC' = FALSE
    /\ cNow' = now
    /\ cpc' = "sampled"
    /\ ret' = NoRet
    /\ UNCHANGED <<now, items, mu, done, panicked, pc, nextTick, lastSet,
                   relCount, snap>>

\* c.mu.Lock() inside the tick branch
CleanupLock ==
    /\ cpc = "sampled"
    /\ MutexFree
    /\ mu' = TRUE
    /\ cpc' = "locked"
    /\ ret' = NoRet
    /\ UNCHANGED <<now, items, done, panicked, pc, cNow, tickC, nextTick,
                   lastSet, relCount, snap>>

\* the range loop over c.items and c.mu.Unlock()
CleanupSweep ==
    /\ cpc = "locked"
    /\ items' = SweepItems(items, cNow)
    /\ mu' = FALSE
    /\ cpc' = "select"
    /\ ret' = [Ret("cleanup", 0, 0, FALSE, zero, 0, EmptyMap) EXCEPT !.now = cNow]
    /\ cNow' = 0
    /\ UNCHANGED <<now, done, panicked, pc, tickC, nextTick, lastSet, relCount,
                   snap>>

\* case <-c.done: return (and the deferred ticker.Stop())
CleanupDoneAtTick ==
    /\ cpc = "select"
    /\ done = "closed"
    /\ tickC
    /\ cpc' = "exited"
    /\ tickC' = FALSE
    /\ nextTick' = 0
    /\ ret' = NoRet
    /\ UNCHANGED <<now, items, mu, done, panicked, pc, cNow, lastSet, relCount,
                   snap>>

CleanupDone ==
    /\ cpc = "select"
    /\ done = "closed"
    /\ cpc' = "exited"
    /\ tickC' = FALSE
    /\ nextTick' = 0
    /\ ret' = NoRet
    /\ UNCHANGED <<now, items, mu, done, panicked, pc, cNow, lastSet, relCount,
                   snap>>

\* ------------------------------------------------------------------- time
TickerRunning == cpc \notin {"start", "exited"}

AdvanceTime ==
    /\ now < MaxTime
    /\ now' = now + 1
    /\ IF TickerRunning /\ now + 1 = nextTick
       THEN tickC' = TRUE /\ nextTick' = nextTick + ttl
       ELSE UNCHANGED <<tickC, nextTick>>
    /\ ret' = NoRet
    /\ UNCHANGED <<items, mu, done, panicked, pc, cpc, cNow, lastSet, relCount,
                   snap>>

Advance == AdvanceTime

\* the goroutine has nothing to do at the current instant
CleanupQuiet ==
    \/ cpc = "exited"
    \/ cpc = "select" /\ ~tickC /\ done = "open"

\* time passes only when the cleanup goroutine has caught up with its ticker
AdvanceTimely == CleanupQuiet /\ AdvanceTime

Caller ==
    \/ \E t \in Threads : Lock(t)
    \/ \E t \in Threads, k \in Keys, v \in Values : Set(t, k, v)
    \/ \E t \in Threads, k \in Keys : Get(t, k)
    \/ \E t \in Threads : Count(t)
    \/ \E t \in Threads : GetAll(t)
    \/ \E t \in Threads, k \in Keys : Delete(t, k)
    \/ \E t \in Threads, k \in Keys : Release(t, k)
    \/ Close

Cleanup ==
    \/ CleanupStart
    \/ CleanupTick
    \/ CleanupLock
    \/ CleanupSweep
    \/ CleanupDone

Next ==
    \/ Caller
    \/ Cleanup
    \/ Advance

Spec == Init /\ [][Next]_vars

NextTimely ==
    \/ Caller
    \/ Cleanup
    \/ AdvanceTimely

SpecTimely == Init /\ [][NextTimely]_vars

\* The callers of SpecFair and SpecSnap draw their keys from FewKeys: neither
\* the goroutine's control flow nor the identity of the map GetAll returns
\* depends on how many keys the store holds.
CallerFew ==
    \/ \E t \in Threads : Lock(t)
    \/ \E t \in Threads, k \in FewKeys, v \in Values : Set(t, k, v)
    \/ \E t \in Threads, k \in FewKeys : Get(t, k)
    \/ \E t \in Threads : Count(t)
    \/ \E t \in Threads : GetAll(t)
    \/ \E t \in Threads, k \in FewKeys : Delete(t, k)
    \/ \E t \in Threads, k \in FewKeys : Release(t, k)
    \/ Close

\* Callers that keep and modify the map GetAll returned
Snapshot ==
    \/ \E t \in Threads : GetAllKeep(t)
    \/ \E k \in FewKeys, v \in Values : SnapPut(k, v)
    \/ \E k \in FewKeys : SnapDelete(k)

NextSnap ==
    \/ CallerFew
    \/ Cleanup
    \/ Advance
    \/ Snapshot

SpecSnap == Init /\ [][NextSnap]_vars

\* Scheduling of the goroutine: a runnable goroutine runs (WF), sync.Mutex
\* does not starve a waiter and select picks a ready case at random (SF).
\* A caller inside its critical section runs to its return (WF); nothing
\* forces the clock to move or a caller to call.
Body(t) ==
    \/ \E k \in Keys, v \in Values : Set(t, k, v)
    \/ \E k \in Keys : Get(t, k)
    \/ Count(t)
    \/ GetAll(t)
    \/ \E k \in Keys : Delete(t, k)
    \/ \E k \in Keys : Release(t, k)

CleanupFairness ==
    /\ \A t \in Threads : WF_vars(Body(t))
    /\ WF_vars(CleanupStart)
    /\ SF_vars(CleanupTick)
    /\ SF_vars(CleanupLock)
    /\ WF_vars(CleanupSweep)
    /\ SF_vars(CleanupDone)

NextFair ==
    \/ CallerFew
    \/ Cleanup
    \/ Advance

SpecFair == Init /\ [][NextFair]_vars /\ CleanupFairness

\* ----------------------------------------------------------------- claims
\* time elapsed between the most recent Set(k, .) and the last operation
Elapsed(k) == ret.now - lastSet[k].at

\* C1: last write wins - a Get(k) that reads the clock less than ttl after
\* the most recent Set(k, v), with no Delete(k)/Release(k) since that Set,
\* returns (v, true).
C1_LastWriteWins ==
    (/\ ret.op = "Get"
     /\ lastSet[ret.key].set
     /\ lastSet[ret.key].intact
     /\ Elapsed(ret.key) < ttl)
        => (ret.found /\ ret.val = lastSet[ret.key].value)

C1_Witness ==
    /\ ret.op = "Get"
    /\ lastSet[ret.key].set
    /\ lastSet[ret.key].intact
    /\ Elapsed(ret.key) = ttl - 1
    /\ ret.found
    /\ ret.val = MaxVal

\* C2: expired entries are never returned by keyed reads - when more than
\* ttl has elapsed since the last Set(k, .), Get(k) and Release(k) return
\* (zero, false) and the store holds no entry for k afterwards.
C2_ExpiredNeverReturned ==
    (/\ ret.op \in {"Get", "Release"}
     /\ lastSet[ret.key].set
     /\ Elapsed(ret.key) > ttl)
        => (~ret.found /\ ret.val = zero /\ ret.key \notin DOMAIN items)

C2_Witness ==
    /\ ret.op = "Release"
    /\ lastSet[ret.key].set
    /\ Elapsed(ret.key) > ttl
    /\ ret.key \in DOMAIN ret.pre
    /\ ret.pre[ret.key].value # zero
    /\ ~ret.found

\* C3 (as claimed): liveness is strict - Get(k) and Release(k) return
\* found=true iff an entry for k is stored and the clock is strictly before
\* its expiry; at the expiry itself they return (zero, false) and remove it.
C3_StrictLiveness ==
    ret.op \in {"Get", "Release"}
        => /\ ret.found <=> (/\ ret.key \in DOMAIN ret.pre
                             /\ ret.now < ret.pre[ret.key].expiryTime)
           /\ ~ret.found => (ret.val = zero /\ ret.key \notin DOMAIN items)

\* C4: Release is an atomic read-and-delete - after Release(k) returns
\* (v, true) the store holds no entry for k, a later Get(k)/Release(k)
\* returns (zero, false) until a new Set(k, .), and the value of one Set is
\* released at most once.
C4_ReleaseAtomic ==
    /\ \A k \in Keys :
        /\ relCount[k] <= 1
        /\ relCount[k] >= 1 => k \notin DOMAIN items
    /\ (ret.op = "Release" /\ ret.found) => ret.key \notin DOMAIN items
    /\ (ret.op = "Get" /\ relCount[ret.key] >= 1)
          => (~ret.found /\ ret.val = zero)
    /\ (ret.op = "Release" /\ ret.key \notin DOMAIN ret.pre)
          => (~ret.found /\ ret.val = zero)

C4_Witness ==
    /\ ret.op = "Release"
    /\ relCount[ret.key] = 1
    /\ ~ret.found
    /\ lastSet[ret.key].set
    /\ Elapsed(ret.key) < ttl

\* C5 (as claimed): Count agrees with Get - the integer Count() returns is
\* the number of keys for which Get, in the same state at the same time,
\* would return found=true.
C5_CountAgreesWithGet ==
    ret.op = "Count"
        => ret.count = Cardinality({k \in Keys : GetFound(ret.pre, k, ret.now)})

\* C6: Count returns the number of distinct keys holding a non-expired
\* entry - a key set several times counts once, a deleted key does not
\* count, and Count is 0 once the ttl of every stored entry has elapsed.
C6_CountDistinctLive ==
    ret.op = "Count"
        => /\ ret.count = Cardinality({k \in Keys :
                              /\ lastSet[k].set
                              /\ lastSet[k].intact
                              /\ Elapsed(k) < ttl})
           /\ (\A k \in DOMAIN ret.pre : ret.now >= ret.pre[k].expiryTime)
                 => ret.count = 0

C6_Witness ==
    /\ ret.op = "Count"
    /\ ret.count = 1
    /\ DOMAIN ret.pre = Keys
    /\ \E k \in Keys : ret.now >= ret.pre[k].expiryTime

\* C7: GetAll returns exactly the live entries - k maps to v in the result
\* iff the store holds (k, v) with an expiry strictly after the clock.
C7_GetAllExactlyLive ==
    ret.op = "GetAll"
        => /\ DOMAIN ret.all \subseteq Keys
           /\ \A k \in Keys : \A v \in Values :
                (k \in DOMAIN ret.all /\ ret.all[k] = v)
                    <=> (/\ k \in DOMAIN ret.pre
                         /\ ret.pre[k].value = v
                         /\ ret.pre[k].expiryTime > ret.now)

C7_Witness ==
    /\ ret.op = "GetAll"
    /\ DOMAIN ret.pre = Keys
    /\ Cardinality(DOMAIN ret.all) = 1
    /\ \E k \in Keys : ret.pre[k].expiryTime = ret.now

\* C8: Delete(k) removes the entry for k whether live or expired, leaves
\* every other key's entry unchanged, and leaves the whole store unchanged
\* when k is absent (so a second Delete(k) changes nothing).
C8_DeleteFrame ==
    ret.op = "Delete"
        => /\ ret.key \notin DOMAIN items
           /\ \A j \in Keys \ {ret.key} :
                /\ j \in DOMAIN items <=> j \in DOMAIN ret.pre
                /\ j \in DOMAIN ret.pre => items[j] = ret.pre[j]
           /\ ret.key \notin DOMAIN ret.pre => items = ret.pre

C8_Witness ==
    /\ ret.op = "Delete"
    /\ DOMAIN ret.pre = Keys
    /\ ret.now > ret.pre[ret.key].expiryTime
    /\ DOMAIN items = Keys \ {ret.key}

C10_NoSweepAfterClose ==
    [][done = "closed" => ~(cpc = "select" /\ cpc' = "sampled")]_vars

\* C11: mutual exclusion - at most one of the callers and the sweep pass is
\* inside its critical section, whoever is inside holds c.mu, and c.mu is
\* free again whenever an operation has returned or a pass has finished.
InCritical == {t \in Threads : pc[t] = "locked"}

NumInCritical == Cardinality(InCritical) + (IF cpc = "locked" THEN 1 ELSE 0)

C11_MutualExclusion ==
    /\ NumInCritical <= 1
    /\ mu <=> NumInCritical = 1
    /\ ret.op \in {"Set", "Get", "Count", "GetAll", "Delete", "Release",
                  "cleanup"} => ~mu

C11_Witness ==
    /\ mu
    /\ cpc = "sampled"
    /\ InCritical # {}
    /\ items # EmptyMap

\* C12: concurrency safety - under every interleaving of callers and sweep
\* passes the lock is never left without a holder that can finish, and a
\* Get(k) that returns found=true returns the value of the latest Set(k, .)
\* before it in lock order, never another key's value.
C12_GetReturnsLatestSet ==
    /\ mu => (InCritical # {} \/ cpc = "locked")
    /\ (ret.op = "Get" /\ ret.found)
          => /\ lastSet[ret.key].set
             /\ lastSet[ret.key].intact
             /\ ret.val = lastSet[ret.key].value
             /\ ret.val \in Values

C12_Witness ==
    /\ ret.op = "Get"
    /\ ret.found
    /\ DOMAIN ret.pre = Keys
    /\ \E j \in Keys : ret.pre[j].value # ret.val
    /\ cpc = "sampled"

\* C16 (as claimed): each sweep pass removes every expired entry - when a
\* pass releases the lock the store holds no entry whose expiry is at or
\* before the time of that pass, the entries expiring exactly then included.
C16_SweepRemovesAllExpired ==
    ret.op = "cleanup"
        => \A k \in DOMAIN items : items[k].expiryTime > ret.now

\* C18: lazy eviction on bulk reads - when Count() or GetAll() returns, every
\* entry that was not live at the call is gone, every live one is stored
\* unchanged, and the store's size is the count (the size of the map)
\* returned.
C18_BulkReadsEvict ==
    ret.op \in {"Count", "GetAll"}
        => /\ DOMAIN items \subseteq DOMAIN ret.pre
           /\ \A k \in DOMAIN ret.pre :
                IF ret.now < ret.pre[k].expiryTime
                THEN k \in DOMAIN items /\ items[k] = ret.pre[k]
                ELSE k \notin DOMAIN items
           /\ ret.op = "Count" => Cardinality(DOMAIN items) = ret.count
           /\ ret.op = "GetAll" => DOMAIN items = DOMAIN ret.all

C18_Witness ==
    /\ ret.op = "Count"
    /\ DOMAIN ret.pre = Keys
    /\ Cardinality(DOMAIN items) = 1
    /\ ret.count = 1

\* C19: expiry is fixed at write time - a stored entry's expiry is the time
\* of the Set that wrote it plus ttl, Get, Count, GetAll and the sweep leave
\* the entries they keep unchanged, and a Get on a live key leaves the whole
\* store unchanged.
C19_ExpiryFixedAtWrite ==
    /\ \A k \in DOMAIN items :
        /\ lastSet[k].set
        /\ items[k].expiryTime = lastSet[k].at + ttl
        /\ items[k].value = lastSet[k].value
    /\ ret.op \in {"Get", "Count", "GetAll", "cleanup"}
          => \A k \in DOMAIN items : k \in DOMAIN ret.pre /\ items[k] = ret.pre[k]
    /\ (ret.op = "Get" /\ ret.found) => items = ret.pre

C19_Witness ==
    /\ ret.op = "Get"
    /\ ret.found
    /\ ret.now > lastSet[ret.key].at
    /\ items[ret.key].expiryTime = lastSet[ret.key].at + ttl

\* C20: no live entry is ever evicted - the sweep and the lazy eviction of
\* Get, Release (not-found path), Count and GetAll remove an entry only when
\* the clock is at or after its expiry, also when a Set runs between the
\* sweep's clock sample and its lock; so the value of a Set stays in the
\* store for its whole ttl unless Delete, Release or a later Set intervenes.
Evicted ==
    IF ret.op \in {"Get", "Count", "GetAll", "cleanup"}
    THEN DOMAIN ret.pre \ DOMAIN items
    ELSE IF ret.op = "Release" /\ ~ret.found
    THEN DOMAIN ret.pre \ DOMAIN items
    ELSE {}

C20_NoLiveEviction ==
    /\ \A k \in Evicted : now >= ret.pre[k].expiryTime
    /\ \A k \in Keys :
        (lastSet[k].set /\ lastSet[k].intact /\ now < lastSet[k].at + ttl)
            => (k \in DOMAIN items /\ items[k].value = lastSet[k].value)

C20_Witness ==
    /\ ret.op = "cleanup"
    /\ \E k \in DOMAIN items : lastSet[k].at > ret.now
    /\ DOMAIN ret.pre # DOMAIN items

\* C14 (as claimed): the cleanup interval is configurable independently of
\* ttl - a cache built with NewCache(ttl, cleanupInterval) sweeps with
\* period cleanupInterval, so the next tick is never further away than
\* cleanupInterval.  The tests build the cache with cleanupInterval = ttl / 2.
cleanupInterval == 1

C14_SweepPeriodIsCleanupInterval ==
    TickerRunning => nextTick <= now + cleanupInterval

\* C15: double close is an error outcome - the first Close() succeeds, a
\* Close() on a closed instance panics, and neither changes the store, takes
\* the lock or moves any other operation; after the panic every operation
\* that holds the lock can still finish and the others can still start.
C15_NoDeadlockAfterPanic ==
    panicked
        => /\ done = "closed"
           /\ IF mu THEN NumInCritical = 1 ELSE NumInCritical = 0

C15_CloseStep ==
    ret'.op = "Close"
        => /\ IF done = "open"
              THEN done' = "closed" /\ ~panicked' /\ ~ret'.found
              ELSE done' = "closed" /\ panicked' /\ ret'.found
           /\ items' = items
           /\ mu' = mu
           /\ pc' = pc
           /\ cpc' = cpc

C15_DoubleClosePanics == [](C15_NoDeadlockAfterPanic) /\ [][C15_CloseStep]_vars

C15_Witness ==
    /\ ret.op = "Close"
    /\ ret.found
    /\ panicked
    /\ items # EmptyMap
    /\ cpc = "locked"

\* C17: the background task terminates after shutdown - once Close() has
\* been called the goroutine eventually exits its loop, whether or not a
\* tick is due, and once exited it never runs again.
C17_ExitedForGood == cpc = "exited" => cpc' = "exited"

====
